---- MODULE Spec2Model ----
(***************************************************************************)
(* Model of the Kato operation-status tracker                              *)
(* (src/spinnaker_testing/kato.py, class _KatoStatus).                     *)
(*                                                                         *)
(* A tracker is built from the initial HTTP response of a submitted        *)
(* operation and is then refreshed with the JSON documents returned by     *)
(* later polls.  JSON objects are functions from the keys they carry to    *)
(* their values, so that a missing key is a key outside DOMAIN and a       *)
(* subscript on it raises KeyError as in Python.                           *)
(***************************************************************************)
EXTENDS Naturals, FiniteSets, Sequences, TLC

VARIABLES
  pc,                 \* "start": nothing built; "ready": tracker built;
                      \* "raised": the constructor raised, no tracker exists
  original_response,  \* the initial response handed to the constructor
  status,             \* the fields of the _KatoStatus object
  raised,             \* exception that left the last call, or NoException
  doc,                \* document handed to the last refresh, or NoDoc
  prev,               \* fields of the tracker before the last refresh
  elapsed,            \* wall-clock ticks since construction
  trackers,           \* several trackers made by one agent: for each its
                      \* pc, original_response and status as above
  applied,            \* for each of them the documents it was refreshed with
  seq_fn,             \* the subprocess-sequence function that was called
  seq_pc,             \* "idle", "loop", "returned" or "raised"
  cmd_list,           \* its cmd_list argument
  started,            \* the commands spawned so far, in order
  seq_response,       \* its local list "response"
  seq_raised,         \* the exception that left it, or NoException
  opts,               \* the parsed command-line options
  env_password,       \* os.environ.get('JENKINS_MASTER_PASSWORD')
  cfg_done,           \* which of the module's functions have been called
  validation,         \* what validate_options(options) did
  made,               \* what make_script(options) did
  files,              \* what get_files_to_upload(options) returned
  excs,               \* the exception objects: for each its attributes
  log_calls,          \* the calls of maybe_log_exception made so far
  log,                \* the records handed to logging.error, in order
  bopts,              \* Builder.__options: the build and nebula options
  pool_size,          \* threads of the pool that runs the builds
  bpc,                \* where build_packages is: "idle", "building",
                      \* "built", "checked", "copying", "returned", "raised"
  all_subsystems,     \* its local all_subsystems, Unbound until assigned
  builds,             \* for each subsystem where its __do_build call is:
                      \* "queued", "running", "handler" or "done"
  outcome,            \* for each subsystem what its build did: "none" yet,
                      \* "ok", "nonzero" or "raised"
  build_failures,     \* Builder.__build_failures
  copies,             \* the subsystems whose __do_copy has started
  braised             \* the exception that left build_packages

\* the variables of the single tracker
katoVars == <<pc, original_response, status, raised, doc, prev>>

\* the variables of the trackers of one agent
agentVars == <<trackers, applied>>

\* the variables of a call of a subprocess-sequence function
seqVars == <<seq_fn, seq_pc, cmd_list, started, seq_response, seq_raised>>

\* the variables of a run of the configuration module
cfgVars == <<opts, env_password, cfg_done, validation, made, files>>

\* the variables of a run of maybe_log_exception calls
logVars == <<excs, log_calls, log>>

\* the variables of a call of Builder.build_packages
buildVars == <<bopts, pool_size, bpc, all_subsystems, builds, outcome,
               build_failures, copies, braised>>

\* the variables outside the single tracker and the clock
nonKatoVars == <<agentVars, seqVars, cfgVars, logVars, buildVars>>

\* the variables outside the trackers of one agent and the clock
nonAgentVars == <<katoVars, seqVars, cfgVars, logVars, buildVars>>

\* the variables outside a call of a subprocess-sequence function
nonSeqVars == <<katoVars, elapsed, agentVars, cfgVars, logVars, buildVars>>

\* the variables outside a run of the configuration module
nonCfgVars == <<katoVars, elapsed, agentVars, seqVars, logVars, buildVars>>

\* the variables outside a run of maybe_log_exception calls
nonLogVars == <<katoVars, elapsed, agentVars, seqVars, cfgVars, buildVars>>

\* the variables outside a call of Builder.build_packages
nonBuildVars == <<katoVars, elapsed, agentVars, seqVars, cfgVars, logVars>>

vars == <<katoVars, elapsed, agentVars, seqVars, cfgVars, logVars, buildVars>>

(* ---------------------------- bounds ----------------------------------- *)

\* wall-clock ticks the model follows
MaxElapsed == 2

\* documents each of the trackers of one agent is refreshed with
MaxApplied == 2

\* trackers one agent has made
NumTrackers == 2

\* longest cmd_list handed to a subprocess-sequence function
MaxCmds == 3

\* calls of maybe_log_exception the model follows
MaxCalls == 3

\* subsystem builds that fail in one call of build_packages
MaxFailures == 2

(* ---------------------------- values ----------------------------------- *)

\* Python's None
None == "<None>"

NoException == "<no exception>"

\* the value of doc while no refresh has been made
NoDoc == [nodoc |-> TRUE]

\* restriction of a record to the keys K: the JSON object that carries
\* exactly those keys
Restrict(r, K) == [k \in K |-> r[k]]

\* values of resourceUri and id in initial responses
ResourceUris == {"/task/1", "/task/2"}

RequestIds == {"id1", "id2"}

\* JSON objects an initial response may carry: any subset of the two
\* identifying keys (the empty subset is, e.g., an error body)
InitialObjects ==
  { Restrict([resourceUri |-> u, id |-> i], K) :
      u \in ResourceUris, i \in RequestIds,
      K \in SUBSET {"resourceUri", "id"} }

\* The output of an initial response:
\*   kind "none"  - no body (output is None)
\*   kind "text"  - text that is not JSON
\*   kind "json"  - JSON text; type is the Python type of its decoded
\*                  value and items the object when that type is dict
InitialResponses ==
  { [kind |-> "none", type |-> None, items |-> Restrict([x |-> None], {})],
    [kind |-> "text", type |-> None, items |-> Restrict([x |-> None], {})] }
  \cup { [kind |-> "json", type |-> t, items |-> Restrict([x |-> None], {})] :
           t \in {"list", "unicode", "int", "bool", "NoneType"} }
  \cup { [kind |-> "json", type |-> "dict", items |-> o] : o \in InitialObjects }

Phases == {"RUNNING", "SUCCEEDED", "FAILED"}

\* failure detail carried by status['status']
Details == {"detail1", "detail2"}

StatusKeys == {"completed", "failed", "phase", "status"}

\* the status sub-object of a poll document: any subset of its keys
StatusObjects ==
  { Restrict([completed |-> c, failed |-> f, phase |-> p, status |-> d], K) :
      c \in BOOLEAN, f \in BOOLEAN, p \in Phases, d \in Details,
      K \in SUBSET StatusKeys }

\* poll documents: an object with a status sub-object, or without one
PollDocuments ==
  { [status |-> s] : s \in StatusObjects } \cup { Restrict([status |-> None], {}) }

(* ------------------------- result of a call ---------------------------- *)

Return(self) == [self |-> self, raised |-> NoException]

Raise(self, exc) == [self |-> self, raised |-> exc]

(* ------------------------- _KatoStatus --------------------------------- *)

\* fields as the base-class constructor leaves them
SpinnakerStatus_init(response) ==
  [ finished          |-> FALSE,
    failed            |-> FALSE,
    current_state     |-> None,
    exception_details |-> None,
    detail_path       |-> None,
    request_id        |-> None,
    error             |-> None ]

\* json.JSONDecoder().decode(original_response.output) inside the try block:
\* ValueError and TypeError are swallowed and leave doc = None
decode(response) ==
  IF response.kind = "none" THEN [type |-> "NoneType", items |-> response.items]
  ELSE IF response.kind = "text" THEN [type |-> "NoneType", items |-> response.items]
  ELSE [type |-> response.type, items |-> response.items]

\* a constructor that marks the tracker finished but forgets to mark it failed
init_invalid_not_failed(self) ==
  [self EXCEPT !.error = "Invalid response",
               !.finished = TRUE,
               !.current_state = "CITEST_INTERNAL_ERROR"]

\* the else branch of __init__: the response was not a JSON object
init_invalid(self) ==
  [self EXCEPT !.error = "Invalid response",
               !.finished = TRUE,
               !.failed = TRUE,
               !.current_state = "CITEST_INTERNAL_ERROR"]

\* the if branch of __init__: take the identifiers from the object
init_identifiers(self, items) ==
  IF "resourceUri" \notin DOMAIN items THEN Raise(self, "KeyError")
  ELSE LET s1 == [self EXCEPT !.detail_path = items["resourceUri"]] IN
       IF "id" \notin DOMAIN items THEN Raise(s1, "KeyError")
       ELSE Return([s1 EXCEPT !.request_id = items["id"]])

\* a constructor whose error branch lost its "else" and always runs
KatoStatus_init_no_else(response) ==
  LET s0 == [SpinnakerStatus_init(response) EXCEPT !.finished = FALSE, !.failed = FALSE]
      d  == decode(response)
      r  == IF d.type = "dict" THEN init_identifiers(s0, d.items) ELSE Return(s0)
  IN IF r.raised = NoException THEN Return(init_invalid(r.self)) ELSE r

KatoStatus_init(response) ==
  LET s0 == [SpinnakerStatus_init(response) EXCEPT !.finished = FALSE, !.failed = FALSE]
      d  == decode(response)
  IN IF d.type = "dict" THEN init_identifiers(s0, d.items)
     ELSE Return(init_invalid(s0))

finished(self) == self.finished

finished_ok(self) == self.finished /\ ~self.failed

\* a tracker that declares a timeout of its own once time has passed
timed_out_by_clock(self) == ~self.finished /\ elapsed > 0

timed_out(self) == FALSE

\* an update that also re-reads the request id from the polled status
set_current_state_rereads_id(self, st) ==
  [self EXCEPT !.current_state = st["phase"], !.exception_details = None,
               !.request_id = None]

\* an update that forgets to record the phase
set_current_state_keeps_state(self, st) ==
  [self EXCEPT !.exception_details = None]

\* an update that keeps the details of an earlier poll
set_current_state_keeps_details(self, st) ==
  [self EXCEPT !.current_state = st["phase"]]

\* lines 84-85: the phase becomes the current state, details are cleared
set_current_state(self, st) ==
  [self EXCEPT !.current_state = st["phase"], !.exception_details = None]

\* an update that records failed outside the "if completed" block
set_completed_failed_always(self, st) ==
  IF st["completed"]
  THEN [self EXCEPT !.finished = TRUE, !.failed = st["failed"]]
  ELSE [self EXCEPT !.failed = st["failed"]]

\* an update that copies completed, not failed, into _failed
set_completed_wrong_flag(self, st) ==
  IF st["completed"]
  THEN [self EXCEPT !.finished = TRUE, !.failed = st["completed"]]
  ELSE self

\* an update that declares the operation failed once time has passed
set_completed_by_deadline(self, st) ==
  IF st["completed"]
  THEN [self EXCEPT !.finished = TRUE, !.failed = st["failed"]]
  ELSE IF elapsed > 0
       THEN [self EXCEPT !.finished = TRUE, !.failed = TRUE]
       ELSE self

\* an update that never records completion
set_completed_never(self, st) == self

\* an update that takes a reported failure for completion
set_completed_on_failed(self, st) ==
  IF st["completed"] \/ st["failed"]
  THEN [self EXCEPT !.finished = TRUE, !.failed = st["failed"]]
  ELSE self

\* lines 86-88
set_completed(self, st) ==
  IF st["completed"]
  THEN [self EXCEPT !.finished = TRUE, !.failed = st["failed"]]
  ELSE self

\* an update that takes the phase, not the status text, as the detail
set_exception_details_from_phase(self, st) ==
  IF st["failed"]
  THEN IF "status" \notin DOMAIN st THEN Raise(self, "KeyError")
       ELSE Return([self EXCEPT !.exception_details = st["phase"]])
  ELSE Return(self)

\* lines 89-90
set_exception_details(self, st) ==
  IF st["failed"]
  THEN IF "status" \notin DOMAIN st THEN Raise(self, "KeyError")
       ELSE Return([self EXCEPT !.exception_details = st["status"]])
  ELSE Return(self)

\* an update that turns a document without a status into an internal error
update_response_from_json_internal_error(self, d) ==
  IF "status" \notin DOMAIN d THEN Return(init_invalid(self))
  ELSE LET st == d["status"] IN
    IF "completed" \notin DOMAIN st THEN Raise(self, "KeyError")
    ELSE IF "failed" \notin DOMAIN st THEN Raise(self, "KeyError")
    ELSE IF "phase" \notin DOMAIN st THEN Raise(self, "KeyError")
    ELSE set_exception_details(set_completed(set_current_state(self, st), st), st)

update_response_from_json(self, d) ==
  IF "status" \notin DOMAIN d THEN Raise(self, "KeyError")
  ELSE LET st == d["status"] IN
    IF "completed" \notin DOMAIN st THEN Raise(self, "KeyError")
    ELSE IF "failed" \notin DOMAIN st THEN Raise(self, "KeyError")
    ELSE IF "phase" \notin DOMAIN st THEN Raise(self, "KeyError")
    ELSE set_exception_details(set_completed(set_current_state(self, st), st), st)

\* a refresh without the guard on finished trackers
refresh_unguarded(self, d) == update_response_from_json(self, d)

\* refresh of the base class: a finished tracker is left alone, any other
\* is updated from the polled document
refresh(self, d) ==
  IF finished(self) THEN Return(self) ELSE update_response_from_json(self, d)

(* ------------------ buildtool/util.py: subprocesses -------------------- *)

\* characters str.strip() removes
Whitespace == {" ", "\n"}

RECURSIVE lstrip(_)
lstrip(text) ==
  IF text # <<>> /\ Head(text) \in Whitespace THEN lstrip(Tail(text)) ELSE text

RECURSIVE rstrip(_)
rstrip(text) ==
  IF text # <<>> /\ text[Len(text)] \in Whitespace
  THEN rstrip(SubSeq(text, 1, Len(text) - 1))
  ELSE text

\* str.strip(): the text without leading and trailing whitespace
strip(text) == rstrip(lstrip(text))

\* The commands of the model.  What a command does when spawned is the
\* environment's: its return code and the text it writes to stdout and
\* stderr, a sequence of characters.
Commands ==
  { [cmd |-> "make", returncode |-> 0, stdout |-> <<"o", "k", "\n">>],
    [cmd |-> "true", returncode |-> 0, stdout |-> <<>>],
    [cmd |-> "false", returncode |-> 1, stdout |-> <<" ", "e", "\n">>],
    [cmd |-> "grep", returncode |-> 2, stdout |-> <<"x">>] }

RECURSIVE SeqsUpTo(_, _)
SeqsUpTo(S, n) ==
  IF n = 0 THEN { <<>> }
  ELSE LET shorter == SeqsUpTo(S, n - 1) IN
       shorter \cup { Append(q, x) : q \in shorter, x \in S }

\* run_subprocess(cmd): spawns cmd, waits, returns (returncode, stdout)
run_subprocess(one) == <<one.returncode, strip(one.stdout)>>

\* a check_subprocess that lost its "raise"
check_subprocess_no_raise(one) ==
  LET res == run_subprocess(one) IN
  [raised |-> NoException, value |-> strip(res[2])]

\* check_subprocess(cmd): run_subprocess, CalledProcessError if it failed
check_subprocess(one) ==
  LET res == run_subprocess(one) IN
  IF res[1] # 0
  THEN [raised |-> "CalledProcessError", value |-> res[2]]
  ELSE [raised |-> NoException, value |-> strip(res[2])]

\* no subprocess-sequence function has been called
SeqIdle ==
  /\ seq_fn = None
  /\ seq_pc = "idle"
  /\ cmd_list = <<>>
  /\ started = <<>>
  /\ seq_response = <<>>
  /\ seq_raised = NoException

(* ------------------ buildtool/util.py: logging ------------------------- *)

\* the exception objects of the model
ExIds == {"ex1", "ex2"}

\* an object without attributes of its own
NoAttributes == Restrict([logged |-> TRUE], {})

\* the "where" arguments of the model
Wheres == {"make", "git"}

\* the action_msg arguments of the model, the default among them
ActionMsgs == {"propagating exception", "ignoring exception"}

\* traceback.format_exc(): the trace of the exception the calling thread
\* is handling, "None" when it handles none
format_exc(handling) == IF handling = None THEN "None" ELSE handling

\* logging.error('"%s" caught exception\n%s', where, text); the field ex
\* tells which call emitted the record
TraceRecord(where, ex, text) ==
  [fmt |-> "caught exception", where |-> where, text |-> text, ex |-> ex]

\* logging.error('"%s" %s', where, action_msg)
ActionRecord(where, ex, action_msg) ==
  [fmt |-> "action", where |-> where, text |-> action_msg, ex |-> ex]

\* a maybe_log_exception that logs the trace on every call
maybe_log_exception_always(objs, records, handling, where, ex, action_msg) ==
  [excs |-> [objs EXCEPT ![ex] = [logged |-> TRUE]],
   log  |-> records \o << TraceRecord(where, ex, format_exc(handling)),
                           ActionRecord(where, ex, action_msg) >>]

\* maybe_log_exception(where, ex, action_msg) on the exception objects objs
\* and the log records, in a thread that is handling "handling"
maybe_log_exception(objs, records, handling, where, ex, action_msg) ==
  IF "logged" \notin DOMAIN objs[ex]
  THEN [excs |-> [objs EXCEPT ![ex] = [logged |-> TRUE]],
        log  |-> records \o << TraceRecord(where, ex, format_exc(handling)),
                                ActionRecord(where, ex, action_msg) >>]
  ELSE [excs |-> objs,
        log  |-> Append(records, ActionRecord(where, ex, action_msg))]

\* maybe_log_exception has not been called
LogIdle ==
  /\ excs = [e \in ExIds |-> NoAttributes]
  /\ log_calls = <<>>
  /\ log = <<>>

(* ------------------ build_release.py: Builder -------------------------- *)

SUBSYSTEM_LIST ==
  << "clouddriver", "orca", "front50", "halyard", "echo", "rosco", "gate",
     "igor", "fiat", "deck", "spinnaker" >>

ADDITIONAL_SUBSYSTEMS == << "spinnaker-monitoring" >>

\* a local variable that has not been assigned
Unbound == "<unbound>"

\* the elements of a list
Range(list) == { list[k] : k \in DOMAIN list }

\* all_subsystems after the two extend calls of build_packages
AllSubsystems == SUBSYSTEM_LIST \o ADDITIONAL_SUBSYSTEMS

\* int(max(1, cpu_ratio * cpu_count())): the pool sizes of the model
PoolSizes == {1, 2}

\* pool.map(func, iterable) hands the iterable to the threads in chunks of
\* this many consecutive items: divmod(len, 4 * threads), rounded up
chunk_size(n, threads) ==
  IF n % (4 * threads) = 0 THEN n \div (4 * threads)
  ELSE (n \div (4 * threads)) + 1

\* the chunk item k of the iterable is in, counted from 0
chunk_of(k, n, threads) == (k - 1) \div chunk_size(n, threads)

\* item k is the first of its chunk
first_of_chunk(k, n, threads) == (k - 1) % chunk_size(n, threads) = 0

\* a handler that keeps only the failure it has just caught
record_failure_overwrites(failures, subsys) == << subsys >>

\* the except block of __do_build: self.__build_failures.append(subsys),
\* one atomic step of the interpreter
record_failure(failures, subsys) == Append(failures, subsys)

\* a test that raises for a failure of any subsystem
check_build_failures_any(failures) ==
  IF failures # << >> THEN "RuntimeError" ELSE NoException

\* lines 521-527 of build_packages: RuntimeError when a subsystem of
\* SUBSYSTEM_LIST is among the failures, otherwise they are ignored
check_build_failures(failures) ==
  IF failures # << >>
  THEN IF Range(failures) \cap Range(SUBSYSTEM_LIST) # {}
       THEN "RuntimeError"
       ELSE NoException
  ELSE NoException

\* wait_on of build_packages: set(all_subsystems).difference(failures)
wait_on(subsystems, failures) == Range(subsystems) \ Range(failures)

\* a Builder has been constructed with the default options, and
\* build_packages has not been called
BuildIdle ==
  /\ bopts = [build |-> TRUE, nebula |-> TRUE]
  /\ pool_size = 1
  /\ bpc = "idle"
  /\ all_subsystems = Unbound
  /\ builds = [k \in DOMAIN AllSubsystems |-> "queued"]
  /\ outcome = [k \in DOMAIN AllSubsystems |-> "none"]
  /\ build_failures = << >>
  /\ copies = {}
  /\ braised = NoException

(* --------------- validate_bom__config.py: configurators --------------- *)

\* Option values are None (the option was not given), the empty string, or
\* a non-empty string.  Options that only fill in text of a command
\* (account names, regions, ids that no condition reads) are left out.

\* Python truthiness of an option value
Truthy(v) == v # None /\ v # ""

\* os.path.basename over the paths of the model
basename(path) ==
  CASE path = "/keys/azs.key" -> "azs.key"
    [] path = "/keys/gcs.json" -> "gcs.json"
    [] path = "/keys/aws.ini" -> "aws.ini"
    [] path = "/keys/azure.key" -> "azure.key"
    [] path = "/keys/docker.pw" -> "docker.pw"
    [] path = "/keys/google.json" -> "google.json"
    [] path = "/keys/kube.cfg" -> "kube.cfg"
    [] path = "/keys/jenkins.pw" -> "jenkins.pw"
    [] OTHER -> path

\* 'jenkins_{name}_password'.format(name=options.jenkins_master_name)
jenkins_password_file(name) ==
  CASE name = None -> "jenkins_None_password"
    [] name = "" -> "jenkins__password"
    [] name = "ci" -> "jenkins_ci_password"

\* write_data_to_secure_path(data, path) of validate_bom__deploy: writes
\* data to path and returns the path
write_data_to_secure_path(data, path) == path

\* a statement of the script: what it configures, and the file it names
Statement(section, target, verb, file) ==
  [section |-> section, target |-> target, verb |-> verb, file |-> file]

\* result of a validate_options: the <service>_enabled flags set so far
Validated(enabled) == [enabled |-> enabled, raised |-> NoException, by |-> None]

Invalid(enabled, exc, by) == [enabled |-> enabled, raised |-> exc, by |-> by]

\* result of an add_config: the script so far
Added(script) == [script |-> script, raised |-> NoException]

NotAdded(script, exc) == [script |-> script, raised |-> exc]

\* the flags with one more set
SetFlag(enabled, flag, value) ==
  [f \in DOMAIN enabled \cup {flag} |-> IF f = flag THEN value ELSE enabled[f]]

(* StorageConfigurator and its helpers *)

Storage_validate_options(options, environ, enabled) ==
  IF options.spinnaker_storage = "azs"
  THEN IF ~Truthy(options.storage_azs_credentials)
       THEN Invalid(enabled, "ValueError", "StorageConfigurator")
       ELSE Validated(enabled)
  ELSE IF options.spinnaker_storage = "gcs"
  THEN IF ~Truthy(options.storage_gcs_bucket)
       THEN Invalid(enabled, "ValueError", "StorageConfigurator")
       ELSE Validated(enabled)
  ELSE Invalid(enabled, "ValueError", "StorageConfigurator")

Storage_add_files_to_upload(options, environ, file_set) ==
  IF options.spinnaker_storage = "azs"
  THEN file_set \cup {options.storage_azs_credentials}
  ELSE IF Truthy(options.storage_gcs_credentials)
       THEN file_set \cup {options.storage_gcs_credentials}
       ELSE file_set

Storage_add_config(options, environ, script) ==
  LET edit == Statement("storage", options.spinnaker_storage, "edit type", None) IN
  IF options.spinnaker_storage = "azs"
  THEN IF options.storage_azs_credentials = None
       THEN NotAdded(script, "AttributeError")
       ELSE Added(script \o
              << Statement("shell", "azs", "cat",
                           basename(options.storage_azs_credentials)),
                 Statement("storage", "azs", "edit", None),
                 edit >>)
  ELSE IF options.spinnaker_storage = "gcs"
  THEN Added(script \o
         << Statement("storage", "gcs", "edit",
                      IF Truthy(options.storage_gcs_credentials)
                      THEN basename(options.storage_gcs_credentials)
                      ELSE None),
            edit >>)
  ELSE NotAdded(script, "ValueError")

(* AwsConfigurator *)

Aws_validate_options(options, environ, enabled) ==
  Validated(SetFlag(enabled, "aws_account_enabled",
                    options.aws_account_credentials # None))

Aws_add_config(options, environ, script) ==
  IF ~Truthy(options.aws_account_credentials) THEN Added(script)
  ELSE LET cred_basename == basename(options.aws_account_credentials) IN
       Added(script \o
         << Statement("provider", "aws", "enable", None),
            Statement("provider", "aws", "account add", None),
            Statement("shell", "aws", "mkdir", None),
            Statement("shell", "aws", "chown", cred_basename),
            Statement("shell", "aws", "chmod", cred_basename),
            Statement("shell", "aws", "mv", cred_basename) >>)

Aws_add_files_to_upload(options, environ, file_set) ==
  IF Truthy(options.aws_account_credentials)
  THEN file_set \cup {options.aws_account_credentials}
  ELSE file_set

(* AzureConfigurator *)

\* the options validate_options requires with a subscription id
AzureRequired ==
  << "azure_account_client_id", "azure_account_credentials",
     "azure_account_subscription_id", "azure_account_tenant_id",
     "azure_account_default_key_vault", "azure_account_default_resource_group" >>

Azure_validate_options(options, environ, enabled) ==
  LET flag == options.azure_account_subscription_id # None
      en == SetFlag(enabled, "azure_account_enabled", flag)
  IN IF ~flag THEN Validated(en)
     ELSE IF (options.azure_account_packer_resource_group # None)
              # (options.azure_account_packer_storage_account # None)
     THEN Invalid(en, "ValueError", "AzureConfigurator")
     ELSE IF \E k \in 1..Len(AzureRequired) : ~Truthy(options[AzureRequired[k]])
     THEN Invalid(en, "ValueError", "AzureConfigurator")
     ELSE Validated(en)

\* the values ' '.join(account_params) is given: a None among them is a
\* TypeError
AzureAccountParams(options) ==
  { options.azure_account_client_id,
    options.azure_account_default_key_vault,
    options.azure_account_default_resource_group,
    options.azure_account_subscription_id,
    options.azure_account_tenant_id }

Azure_add_config(options, environ, script) ==
  IF ~Truthy(options.azure_account_credentials) THEN Added(script)
  ELSE IF None \in AzureAccountParams(options) THEN NotAdded(script, "TypeError")
  ELSE Added(script \o
         << Statement("provider", "azure", "enable", None),
            Statement("provider", "azure", "account add",
                      basename(options.azure_account_credentials)) >>)

Azure_add_files_to_upload(options, environ, file_set) ==
  IF Truthy(options.azure_account_credentials)
  THEN file_set \cup {options.azure_account_credentials}
  ELSE file_set

(* DockerConfigurator *)

Docker_validate_options(options, environ, enabled) ==
  Validated(SetFlag(enabled, "docker_account_enabled",
                    options.docker_account_address # None))

Docker_add_config(options, environ, script) ==
  IF ~Truthy(options.docker_account_address) THEN Added(script)
  ELSE LET creds == options.docker_account_credentials
           chmod == IF Truthy(creds)
                    THEN << Statement("shell", "docker", "chmod", basename(creds)) >>
                    ELSE << >>
       IN Added(script \o chmod \o
            << Statement("provider", "docker", "enable", None),
               Statement("provider", "docker", "account add",
                         IF Truthy(creds) THEN creds ELSE None) >>)

\* an add_files_to_upload that was left empty
Docker_add_files_to_upload_pass(options, environ, file_set) == file_set

Docker_add_files_to_upload(options, environ, file_set) ==
  IF Truthy(options.docker_account_credentials)
  THEN file_set \cup {options.docker_account_credentials}
  ELSE file_set

(* GoogleConfigurator *)

Google_validate_options(options, environ, enabled) ==
  LET en == SetFlag(enabled, "google_account_enabled",
                    options.google_account_credentials # None)
  IN IF Truthy(options.google_account_credentials)
        /\ ~Truthy(options.google_account_project)
     THEN Invalid(en, "ValueError", "GoogleConfigurator")
     ELSE Validated(en)

Google_add_config(options, environ, script) ==
  IF ~Truthy(options.google_account_credentials) THEN Added(script)
  ELSE IF ~Truthy(options.google_account_project)
  THEN NotAdded(script, "ValueError")
  ELSE Added(script \o
         << Statement("provider", "google", "enable", None),
            Statement("provider", "google", "account add",
                      basename(options.google_account_credentials)) >>)

Google_add_files_to_upload(options, environ, file_set) ==
  IF Truthy(options.google_account_credentials)
  THEN file_set \cup {options.google_account_credentials}
  ELSE file_set

(* KubernetesConfigurator *)

Kubernetes_validate_options(options, environ, enabled) ==
  LET en == SetFlag(enabled, "k8s_account_enabled",
                    options.k8s_account_credentials # None)
  IN IF Truthy(options.k8s_account_credentials)
        /\ ~Truthy(options.k8s_account_docker_account)
     THEN Invalid(en, "ValueError", "KubernetesConfigurator")
     ELSE Validated(en)

Kubernetes_add_config(options, environ, script) ==
  IF ~Truthy(options.k8s_account_credentials) THEN Added(script)
  ELSE IF ~Truthy(options.k8s_account_docker_account)
  THEN NotAdded(script, "ValueError")
  ELSE Added(script \o
         << Statement("provider", "k8s", "enable", None),
            Statement("provider", "k8s", "account add",
                      basename(options.k8s_account_credentials)) >>)

Kubernetes_add_files_to_upload(options, environ, file_set) ==
  IF Truthy(options.k8s_account_credentials)
  THEN file_set \cup {options.k8s_account_credentials}
  ELSE file_set

(* JenkinsConfigurator; environ is os.environ.get('JENKINS_MASTER_PASSWORD') *)

\* name, address and user are not all given or all left out
JenkinsInconsistent(name, address, user) ==
  \/ (name = None) # (address = None)
  \/ (name = None) # (user = None)

Jenkins_validate_options(options, environ, enabled) ==
  IF JenkinsInconsistent(options.jenkins_master_name,
                         options.jenkins_master_address,
                         options.jenkins_master_user)
  THEN Invalid(enabled, "ValueError", "JenkinsConfigurator")
  ELSE IF Truthy(options.jenkins_master_name) /\ environ = None
  THEN Invalid(enabled, "ValueError", "JenkinsConfigurator")
  ELSE Validated(SetFlag(enabled, "jenkins_master_enabled",
                         options.jenkins_master_name # None))

\* "x or None"
OrNone(v) == IF Truthy(v) THEN v ELSE None

\* the password file add_config names
Jenkins_password_file(options, environ) ==
  IF Truthy(options.jenkins_master_credentials)
  THEN options.jenkins_master_credentials
  ELSE IF Truthy(environ)
  THEN jenkins_password_file(options.jenkins_master_name)
  ELSE None

Jenkins_add_config(options, environ, script) ==
  LET name == OrNone(options.jenkins_master_name)
      address == OrNone(options.jenkins_master_address)
      user == OrNone(options.jenkins_master_user)
      password_file == Jenkins_password_file(options, environ)
  IN IF JenkinsInconsistent(name, address, user) THEN NotAdded(script, "ValueError")
     ELSE IF name = None THEN Added(script)
     ELSE IF password_file = None THEN NotAdded(script, "ValueError")
     ELSE Added(script \o
            << Statement("ci", "jenkins", "enable", None),
               Statement("ci", "jenkins", "master add", basename(password_file)) >>)

Jenkins_add_files_to_upload(options, environ, file_set) ==
  IF Truthy(options.jenkins_master_credentials)
  THEN file_set \cup {options.jenkins_master_credentials}
  ELSE IF Truthy(environ)
  THEN file_set \cup
         { write_data_to_secure_path(
             environ, jenkins_password_file(options.jenkins_master_name)) }
  ELSE file_set

(* the module's functions over CONFIGURATOR_LIST *)

\* Monitoring, Notification and Security do nothing in every method
CONFIGURATOR_LIST ==
  << "Storage", "Aws", "Azure", "Docker", "Google", "Kubernetes", "Jenkins",
     "Monitoring", "Notification", "Security" >>

\* configurator.validate_options(options)
configurator_validate_options(c, options, environ, enabled) ==
  CASE c = "Storage" -> Storage_validate_options(options, environ, enabled)
    [] c = "Aws" -> Aws_validate_options(options, environ, enabled)
    [] c = "Azure" -> Azure_validate_options(options, environ, enabled)
    [] c = "Docker" -> Docker_validate_options(options, environ, enabled)
    [] c = "Google" -> Google_validate_options(options, environ, enabled)
    [] c = "Kubernetes" -> Kubernetes_validate_options(options, environ, enabled)
    [] c = "Jenkins" -> Jenkins_validate_options(options, environ, enabled)
    [] OTHER -> Validated(enabled)

\* configurator.add_config(options, script)
configurator_add_config(c, options, environ, script) ==
  CASE c = "Storage" -> Storage_add_config(options, environ, script)
    [] c = "Aws" -> Aws_add_config(options, environ, script)
    [] c = "Azure" -> Azure_add_config(options, environ, script)
    [] c = "Docker" -> Docker_add_config(options, environ, script)
    [] c = "Google" -> Google_add_config(options, environ, script)
    [] c = "Kubernetes" -> Kubernetes_add_config(options, environ, script)
    [] c = "Jenkins" -> Jenkins_add_config(options, environ, script)
    [] OTHER -> Added(script)

\* configurator.add_files_to_upload(options, file_set)
configurator_add_files_to_upload(c, options, environ, file_set) ==
  CASE c = "Storage" -> Storage_add_files_to_upload(options, environ, file_set)
    [] c = "Aws" -> Aws_add_files_to_upload(options, environ, file_set)
    [] c = "Azure" -> Azure_add_files_to_upload(options, environ, file_set)
    [] c = "Docker" -> Docker_add_files_to_upload(options, environ, file_set)
    [] c = "Google" -> Google_add_files_to_upload(options, environ, file_set)
    [] c = "Kubernetes" -> Kubernetes_add_files_to_upload(options, environ, file_set)
    [] c = "Jenkins" -> Jenkins_add_files_to_upload(options, environ, file_set)
    [] OTHER -> file_set

\* the loop of validate_options from configurator k on: the first
\* configurator that raises ends it
RECURSIVE validate_from(_, _, _, _)
validate_from(k, options, environ, enabled) ==
  IF k > Len(CONFIGURATOR_LIST) THEN Validated(enabled)
  ELSE LET res == configurator_validate_options(
                    CONFIGURATOR_LIST[k], options, environ, enabled)
       IN IF res.raised # NoException THEN res
          ELSE validate_from(k + 1, options, environ, res.enabled)

validate_options(options, environ) ==
  validate_from(1, options, environ, << >>)

RECURSIVE add_config_from(_, _, _, _)
add_config_from(k, options, environ, script) ==
  IF k > Len(CONFIGURATOR_LIST) THEN Added(script)
  ELSE LET res == configurator_add_config(
                    CONFIGURATOR_LIST[k], options, environ, script)
       IN IF res.raised # NoException THEN res
          ELSE add_config_from(k + 1, options, environ, res.script)

make_script(options, environ) == add_config_from(1, options, environ, << >>)

RECURSIVE add_files_from(_, _, _, _)
add_files_from(k, options, environ, file_set) ==
  IF k > Len(CONFIGURATOR_LIST) THEN file_set
  ELSE add_files_from(k + 1, options, environ,
         configurator_add_files_to_upload(
           CONFIGURATOR_LIST[k], options, environ, file_set))

get_files_to_upload(options, environ) == add_files_from(1, options, environ, {})

(* the command lines of the model *)

\* a command line that configures gcs storage and nothing else
DefaultOptions ==
  [ spinnaker_storage |-> "gcs",
    storage_azs_credentials |-> None,
    storage_gcs_bucket |-> "bucket",
    storage_gcs_credentials |-> None,
    aws_account_credentials |-> None,
    azure_account_subscription_id |-> None,
    azure_account_credentials |-> None,
    azure_account_client_id |-> None,
    azure_account_tenant_id |-> None,
    azure_account_default_key_vault |-> None,
    azure_account_default_resource_group |-> None,
    azure_account_packer_resource_group |-> None,
    azure_account_packer_storage_account |-> None,
    docker_account_address |-> None,
    docker_account_credentials |-> None,
    google_account_credentials |-> None,
    google_account_project |-> None,
    k8s_account_credentials |-> None,
    k8s_account_docker_account |-> None,
    jenkins_master_name |-> None,
    jenkins_master_address |-> None,
    jenkins_master_user |-> None,
    jenkins_master_credentials |-> None ]

\* the options of one configurator, as a command line may set them
StorageArgs ==
  [ spinnaker_storage : {"azs", "gcs"},
    storage_azs_credentials : {None, "", "/keys/azs.key"},
    storage_gcs_bucket : {None, "bucket"},
    storage_gcs_credentials : {None, "/keys/gcs.json"} ]

AwsArgs == [ aws_account_credentials : {None, "", "/keys/aws.ini"} ]

AzureArgs ==
  [ azure_account_subscription_id : {None, "", "sub"},
    azure_account_credentials : {None, "", "/keys/azure.key"},
    azure_account_client_id : {None, "client"},
    azure_account_tenant_id : {None, "tenant"},
    azure_account_default_key_vault : {None, "vault"},
    azure_account_default_resource_group : {None, "group"},
    azure_account_packer_resource_group : {None, "packer-group"},
    azure_account_packer_storage_account : {None, "packer-storage"} ]

DockerArgs ==
  [ docker_account_address : {None, "", "index.docker.io"},
    docker_account_credentials : {None, "", "/keys/docker.pw"} ]

GoogleArgs ==
  [ google_account_credentials : {None, "", "/keys/google.json"},
    google_account_project : {None, "project"} ]

KubernetesArgs ==
  [ k8s_account_credentials : {None, "", "/keys/kube.cfg"},
    k8s_account_docker_account : {None, "my-docker-account"} ]

JenkinsArgs ==
  [ jenkins_master_name : {None, "", "ci"},
    jenkins_master_address : {None, "http://ci"},
    jenkins_master_user : {None, "user"},
    jenkins_master_credentials : {None, "", "/keys/jenkins.pw"} ]

\* The command lines: the options of one configurator set in any way, all
\* other options as in DefaultOptions.
CommandLines ==
  { a @@ DefaultOptions :
      a \in StorageArgs \cup AwsArgs \cup AzureArgs \cup DockerArgs
            \cup GoogleArgs \cup KubernetesArgs \cup JenkinsArgs }

\* values of the JENKINS_MASTER_PASSWORD environment variable
Environs == {None, "", "secret"}

\* the module has not been used
CfgIdle ==
  /\ opts = DefaultOptions
  /\ env_password = None
  /\ cfg_done = {}
  /\ validation = Validated(<< >>)
  /\ made = Added(<< >>)
  /\ files = {}

(* ----------------------------- actions --------------------------------- *)

NoStatus == SpinnakerStatus_init(None)

TrackerIds == 1..NumTrackers

\* no tracker of the agent has been made
AgentIdle ==
  /\ trackers = [i \in TrackerIds |->
                   [pc |-> "start", original_response |-> None, status |-> NoStatus]]
  /\ applied = [i \in TrackerIds |-> <<>>]

Init ==
  /\ pc = "start"
  /\ original_response = None
  /\ status = NoStatus
  /\ raised = NoException
  /\ doc = NoDoc
  /\ prev = NoStatus
  /\ elapsed = 0
  /\ AgentIdle
  /\ SeqIdle
  /\ CfgIdle
  /\ LogIdle
  /\ BuildIdle

\* _KatoStatus.new(operation, original_response)
New ==
  /\ pc = "start"
  /\ \E r \in InitialResponses :
       LET res == KatoStatus_init(r) IN
         /\ original_response' = r
         /\ status' = res.self
         /\ raised' = res.raised
         /\ pc' = IF res.raised = NoException THEN "ready" ELSE "raised"
  /\ UNCHANGED <<doc, prev, elapsed, nonKatoVars>>

\* one poll: the caller refreshes the tracker with a polled document
Refresh ==
  /\ pc = "ready"
  /\ \E d \in PollDocuments :
       LET res == refresh(status, d) IN
         /\ status' = res.self
         /\ raised' = res.raised
         /\ doc' = d
         /\ prev' = status
  /\ UNCHANGED <<pc, original_response, elapsed, nonKatoVars>>

\* wall-clock time passes
Tick ==
  /\ pc = "ready"
  /\ elapsed < MaxElapsed
  /\ elapsed' = elapsed + 1
  /\ UNCHANGED <<katoVars, nonKatoVars>>

Next == New \/ Refresh \/ Tick

Spec == Init /\ [][Next]_vars

\* The caller's polling loop keeps refreshing the tracker.  The clock is
\* left out: no line of the tracker reads it.
LiveNext == New \/ Refresh

LiveSpec == Init /\ [][LiveNext]_vars /\ WF_vars(Refresh)

(* ------------------- several trackers of one agent --------------------- *)

\* initial responses the agent's operations receive
AgentResponses ==
  { [kind |-> "json", type |-> "dict",
     items |-> [resourceUri |-> "/task/1", id |-> "id1"]],
    [kind |-> "json", type |-> "dict",
     items |-> [resourceUri |-> "/task/2", id |-> "id2"]],
    [kind |-> "text", type |-> None, items |-> Restrict([x |-> None], {})] }

\* documents the agent's polls return
AgentDocuments ==
  { [status |-> [completed |-> FALSE, failed |-> FALSE, phase |-> "RUNNING"]],
    [status |-> [completed |-> FALSE, failed |-> TRUE, phase |-> "RUNNING",
                 status |-> "detail2"]],
    [status |-> [completed |-> TRUE, failed |-> FALSE, phase |-> "SUCCEEDED"]],
    [status |-> [completed |-> TRUE, failed |-> TRUE, phase |-> "FAILED",
                 status |-> "detail1"]],
    [status |-> [completed |-> TRUE, failed |-> TRUE, phase |-> "FAILED"]] }

\* a tracker whose fields are attributes of the class, shared by all
\* instances, instead of attributes of self
refresh_tracker_shared(ts, i, d) ==
  [j \in DOMAIN ts |-> [ts[j] EXCEPT !.status = refresh(ts[i].status, d).self]]

\* refresh of tracker i: every assignment is to an attribute of self
refresh_tracker(ts, i, d) ==
  [ts EXCEPT ![i].status = refresh(ts[i].status, d).self]

AgentInit ==
  /\ pc = "start"
  /\ original_response = None
  /\ status = NoStatus
  /\ raised = NoException
  /\ doc = NoDoc
  /\ prev = NoStatus
  /\ elapsed = 0
  /\ AgentIdle
  /\ SeqIdle
  /\ CfgIdle
  /\ LogIdle
  /\ BuildIdle

\* the agent submits an operation and wraps its response in a tracker
AgentNew ==
  /\ \E i \in TrackerIds, r \in AgentResponses :
       /\ trackers[i].pc = "start"
       /\ LET res == KatoStatus_init(r) IN
            trackers' = [trackers EXCEPT ![i] =
              [pc |-> IF res.raised = NoException THEN "ready" ELSE "raised",
               original_response |-> r,
               status |-> res.self]]
  /\ UNCHANGED <<nonAgentVars, elapsed, applied>>

\* a poll of one of the trackers
AgentRefresh ==
  /\ \E i \in TrackerIds, d \in AgentDocuments :
       /\ trackers[i].pc = "ready"
       /\ Len(applied[i]) < MaxApplied
       /\ trackers' = refresh_tracker(trackers, i, d)
       /\ applied' = [applied EXCEPT ![i] = Append(@, d)]
  /\ UNCHANGED <<nonAgentVars, elapsed>>

\* wall-clock time passes
AgentTick ==
  /\ elapsed < MaxElapsed
  /\ elapsed' = elapsed + 1
  /\ UNCHANGED <<nonAgentVars, agentVars>>

AgentNext == AgentNew \/ AgentRefresh \/ AgentTick

AgentSpec == AgentInit /\ [][AgentNext]_vars

(* ------------------- subprocess-sequence functions --------------------- *)

SeqInit ==
  /\ pc = "start"
  /\ original_response = None
  /\ status = NoStatus
  /\ raised = NoException
  /\ doc = NoDoc
  /\ prev = NoStatus
  /\ elapsed = 0
  /\ AgentIdle
  /\ SeqIdle
  /\ CfgIdle
  /\ LogIdle
  /\ BuildIdle

\* a caller calls one of the two functions; response = []
SeqCall ==
  /\ seq_pc = "idle"
  /\ \E f \in {"run_subprocess_sequence", "check_subprocess_sequence"},
        l \in SeqsUpTo(Commands, MaxCmds) :
       /\ seq_fn' = f
       /\ cmd_list' = l
  /\ seq_pc' = "loop"
  /\ seq_response' = <<>>
  /\ UNCHANGED <<started, seq_raised, nonSeqVars>>

\* one iteration of "for one in cmd_list" in run_subprocess_sequence
RunSequenceStep ==
  /\ seq_fn = "run_subprocess_sequence"
  /\ seq_pc = "loop"
  /\ Len(started) < Len(cmd_list)
  /\ LET one == cmd_list[Len(started) + 1] IN
       /\ started' = Append(started, one)
       /\ seq_response' = Append(seq_response, run_subprocess(one))
  /\ UNCHANGED <<seq_fn, seq_pc, cmd_list, seq_raised, nonSeqVars>>

\* one iteration of "for one in cmd_list" in check_subprocess_sequence
CheckSequenceStep ==
  /\ seq_fn = "check_subprocess_sequence"
  /\ seq_pc = "loop"
  /\ Len(started) < Len(cmd_list)
  /\ LET one == cmd_list[Len(started) + 1]
         res == check_subprocess(one)
     IN /\ started' = Append(started, one)
        /\ IF res.raised = NoException
           THEN /\ seq_response' = Append(seq_response, res.value)
                /\ UNCHANGED <<seq_pc, seq_raised>>
           ELSE /\ seq_pc' = "raised"
                /\ seq_raised' = res.raised
                /\ UNCHANGED seq_response
  /\ UNCHANGED <<seq_fn, cmd_list, nonSeqVars>>

\* the loop is exhausted: return response
SeqReturn ==
  /\ seq_pc = "loop"
  /\ Len(started) = Len(cmd_list)
  /\ seq_pc' = "returned"
  /\ UNCHANGED <<seq_fn, cmd_list, started, seq_response, seq_raised, nonSeqVars>>

SeqNext == SeqCall \/ RunSequenceStep \/ CheckSequenceStep \/ SeqReturn

SeqSpec == SeqInit /\ [][SeqNext]_vars

(* --------------------- the configuration module ------------------------ *)

CfgInit ==
  /\ pc = "start"
  /\ original_response = None
  /\ status = NoStatus
  /\ raised = NoException
  /\ doc = NoDoc
  /\ prev = NoStatus
  /\ elapsed = 0
  /\ AgentIdle
  /\ SeqIdle
  /\ CfgIdle
  /\ LogIdle
  /\ BuildIdle

\* the argument parser returns the options of the command line
ParseArgs ==
  /\ cfg_done = {}
  /\ opts' \in CommandLines
  /\ env_password' \in Environs
  /\ cfg_done' = {"parse_args"}
  /\ UNCHANGED <<validation, made, files, nonCfgVars>>

\* validate_options(options)
ValidateOptions ==
  /\ "parse_args" \in cfg_done
  /\ "validate_options" \notin cfg_done
  /\ validation' = validate_options(opts, env_password)
  /\ cfg_done' = cfg_done \cup {"validate_options"}
  /\ UNCHANGED <<opts, env_password, made, files, nonCfgVars>>

\* make_script(options)
MakeScript ==
  /\ "parse_args" \in cfg_done
  /\ "make_script" \notin cfg_done
  /\ made' = make_script(opts, env_password)
  /\ cfg_done' = cfg_done \cup {"make_script"}
  /\ UNCHANGED <<opts, env_password, validation, files, nonCfgVars>>

\* get_files_to_upload(options)
GetFilesToUpload ==
  /\ "parse_args" \in cfg_done
  /\ "get_files_to_upload" \notin cfg_done
  /\ files' = get_files_to_upload(opts, env_password)
  /\ cfg_done' = cfg_done \cup {"get_files_to_upload"}
  /\ UNCHANGED <<opts, env_password, validation, made, nonCfgVars>>

CfgNext == ParseArgs \/ ValidateOptions \/ MakeScript \/ GetFilesToUpload

CfgSpec == CfgInit /\ [][CfgNext]_vars

(* ---------------------- maybe_log_exception calls --------------------- *)

LogInit ==
  /\ pc = "start"
  /\ original_response = None
  /\ status = NoStatus
  /\ raised = NoException
  /\ doc = NoDoc
  /\ prev = NoStatus
  /\ elapsed = 0
  /\ AgentIdle
  /\ SeqIdle
  /\ CfgIdle
  /\ LogIdle
  /\ BuildIdle

\* an except block calls maybe_log_exception(where, ex, action_msg)
MaybeLogException ==
  /\ Len(log_calls) < MaxCalls
  /\ \E where \in Wheres, ex \in ExIds, action_msg \in ActionMsgs,
        handling \in ExIds \cup {None} :
       LET res == maybe_log_exception(excs, log, handling, where, ex, action_msg)
       IN /\ excs' = res.excs
          /\ log' = res.log
          /\ log_calls' = Append(log_calls,
               [where |-> where, ex |-> ex, action_msg |-> action_msg])
  /\ UNCHANGED nonLogVars

LogNext == MaybeLogException

LogSpec == LogInit /\ [][LogNext]_vars

(* ------------------------ Builder.build_packages ----------------------- *)

BuildInit ==
  /\ pc = "start"
  /\ original_response = None
  /\ status = NoStatus
  /\ raised = NoException
  /\ doc = NoDoc
  /\ prev = NoStatus
  /\ elapsed = 0
  /\ AgentIdle
  /\ SeqIdle
  /\ CfgIdle
  /\ LogIdle
  /\ BuildIdle

\* the chunks of the build pool's map that a thread has taken and not
\* finished
ActiveChunks ==
  LET n  == Len(AllSubsystems)
      cs == chunk_size(n, pool_size)
  IN { chunk_of(k, n, pool_size) : k \in
         { j \in DOMAIN AllSubsystems :
             /\ first_of_chunk(j, n, pool_size)
             /\ builds[j] # "queued"
             /\ \E i \in DOMAIN AllSubsystems :
                  /\ chunk_of(i, n, pool_size) = chunk_of(j, n, pool_size)
                  /\ builds[i] # "done" } }

\* the builds that have failed so far
FailedBuilds == { k \in DOMAIN AllSubsystems : outcome[k] \in {"nonzero", "raised"} }

\* main calls builder.build_packages(); with the build option the
\* subsystems are handed to a pool of threads
BuildPackages ==
  /\ bpc = "idle"
  /\ \E o \in [build : BOOLEAN, nebula : BOOLEAN] :
       /\ bopts' = o
       /\ IF o.build
          THEN /\ all_subsystems' = AllSubsystems
               /\ pool_size' \in PoolSizes
               /\ bpc' = "building"
          ELSE /\ bpc' = "built"
               /\ UNCHANGED <<all_subsystems, pool_size>>
  /\ UNCHANGED <<builds, outcome, build_failures, copies, braised, nonBuildVars>>

\* a thread of the pool enters __do_build for the next subsystem of its
\* chunk, or takes the next chunk of the queue
StartBuild ==
  /\ bpc = "building"
  /\ \E k \in DOMAIN AllSubsystems :
       LET n  == Len(AllSubsystems)
           cs == chunk_size(n, pool_size)
       IN /\ builds[k] = "queued"
          /\ IF first_of_chunk(k, n, pool_size)
             THEN /\ IF k = 1 THEN TRUE ELSE builds[k - cs] # "queued"
                  /\ Cardinality(ActiveChunks) < pool_size
             ELSE builds[k - 1] = "done"
          /\ builds' = [builds EXCEPT ![k] = "running"]
  /\ UNCHANGED <<bopts, pool_size, bpc, all_subsystems, outcome,
                 build_failures, copies, braised, nonBuildVars>>

\* start_subsystem_build(subsys).check_wait() ends: it returns, or the
\* build exited non-zero (SystemError), or starting it raised
FinishBuild ==
  /\ bpc = "building"
  /\ \E k \in DOMAIN AllSubsystems, o \in {"ok", "nonzero", "raised"} :
       /\ builds[k] = "running"
       /\ o # "ok" => Cardinality(FailedBuilds) < MaxFailures
       /\ outcome' = [outcome EXCEPT ![k] = o]
       /\ builds' = [builds EXCEPT ![k] = IF o = "ok" THEN "done" ELSE "handler"]
  /\ UNCHANGED <<bopts, pool_size, bpc, all_subsystems,
                 build_failures, copies, braised, nonBuildVars>>

\* the except block of __do_build
RecordFailure ==
  /\ bpc = "building"
  /\ \E k \in DOMAIN AllSubsystems :
       /\ builds[k] = "handler"
       /\ build_failures' = record_failure(build_failures, AllSubsystems[k])
       /\ builds' = [builds EXCEPT ![k] = "done"]
  /\ UNCHANGED <<bopts, pool_size, bpc, all_subsystems, outcome,
                 copies, braised, nonBuildVars>>

\* pool.map(self.__do_build, all_subsystems) returns
MapReturn ==
  /\ bpc = "building"
  /\ \A k \in DOMAIN AllSubsystems : builds[k] = "done"
  /\ bpc' = "built"
  /\ UNCHANGED <<bopts, pool_size, all_subsystems, builds, outcome,
                 build_failures, copies, braised, nonBuildVars>>

\* lines 521-527
CheckBuildFailures ==
  /\ bpc = "built"
  /\ LET exc == check_build_failures(build_failures) IN
       /\ braised' = exc
       /\ bpc' = IF exc = NoException THEN "checked" ELSE "raised"
  /\ UNCHANGED <<bopts, pool_size, all_subsystems, builds, outcome,
                 build_failures, copies, nonBuildVars>>

\* lines 529-530: with nebula there is nothing to copy
NebulaReturn ==
  /\ bpc = "checked"
  /\ bopts.nebula
  /\ bpc' = "returned"
  /\ UNCHANGED <<bopts, pool_size, all_subsystems, builds, outcome,
                 build_failures, copies, braised, nonBuildVars>>

\* lines 532-534: wait_on is computed from all_subsystems and a pool with
\* one thread for each of its subsystems is made
CopyPackages ==
  /\ bpc = "checked"
  /\ ~bopts.nebula
  /\ IF all_subsystems = Unbound
     THEN braised' = "UnboundLocalError" /\ bpc' = "raised"
     ELSE IF wait_on(all_subsystems, build_failures) = {}
          THEN braised' = "ValueError" /\ bpc' = "raised"
          ELSE bpc' = "copying" /\ UNCHANGED braised
  /\ UNCHANGED <<bopts, pool_size, all_subsystems, builds, outcome,
                 build_failures, copies, nonBuildVars>>

\* a thread of the copy pool enters __do_copy(subsys)
StartCopy ==
  /\ bpc = "copying"
  /\ \E subsys \in wait_on(all_subsystems, build_failures) \ copies :
       copies' = copies \cup {subsys}
  /\ UNCHANGED <<bopts, pool_size, bpc, all_subsystems, builds, outcome,
                 build_failures, braised, nonBuildVars>>

\* pool.map(self.__do_copy, wait_on) returns: every copy has been made
CopyReturn ==
  /\ bpc = "copying"
  /\ copies = wait_on(all_subsystems, build_failures)
  /\ bpc' = "returned"
  /\ UNCHANGED <<bopts, pool_size, all_subsystems, builds, outcome,
                 build_failures, copies, braised, nonBuildVars>>

\* a copy raised (no .deb: AssertionError; a copy command failed:
\* SystemError) and pool.map raises it in build_packages
CopyRaise ==
  /\ bpc = "copying"
  /\ copies # {}
  /\ braised' \in {"AssertionError", "SystemError"}
  /\ bpc' = "raised"
  /\ UNCHANGED <<bopts, pool_size, all_subsystems, builds, outcome,
                 build_failures, copies, nonBuildVars>>

BuildNext ==
  \/ BuildPackages \/ StartBuild \/ FinishBuild \/ RecordFailure \/ MapReturn
  \/ CheckBuildFailures \/ NebulaReturn \/ CopyPackages
  \/ StartCopy \/ CopyReturn \/ CopyRaise

BuildSpec == BuildInit /\ [][BuildNext]_vars

(* ----------------------------- properties ------------------------------ *)

\* a refresh has been made
Polled == doc # NoDoc

\* the last refresh was applied to a tracker that was not finished
PolledNonTerminal == pc = "ready" /\ Polled /\ ~prev.finished

\* the status sub-object of the last document carries key k with value v
DocHas(k, v) ==
  /\ Polled
  /\ "status" \in DOMAIN doc
  /\ k \in DOMAIN doc["status"]
  /\ doc["status"][k] = v

\* the status sub-object of the last document carries key k
DocCarries(k) ==
  Polled /\ "status" \in DOMAIN doc /\ k \in DOMAIN doc["status"]

\* the initial response was a JSON object
InitialIsObject == pc # "start" /\ decode(original_response).type = "dict"

\* the tracker is the terminal internal-error tracker
InternalError(self) ==
  self.finished /\ self.failed /\ self.current_state = "CITEST_INTERNAL_ERROR"

\* C1: in every state of a built tracker, failed implies finished, and
\* finished_ok holds exactly when finished holds and failed does not.
C1_FailedImpliesFinished ==
  pc = "ready" =>
    /\ status.failed => finished(status)
    /\ finished_ok(status) <=> (finished(status) /\ ~status.failed)

\* a tracker built from a valid response that was not finished and that a
\* refresh has made finished and failed
C1_Witness ==
  /\ PolledNonTerminal
  /\ InitialIsObject
  /\ status.failed /\ finished(status) /\ ~finished_ok(status)

\* C2: once a tracker is finished, no step changes any of its fields: a
\* refresh with any document leaves finished, failed, finished_ok,
\* current_state, exception_details and the identifiers as they were.
C2_TerminalRefreshIsNoOp ==
  [][(pc = "ready" /\ finished(status)) =>
       (status' = status /\ finished_ok(status') = finished_ok(status))]_vars

\* a tracker finished by a completed poll was refreshed again with a
\* document that would otherwise have changed its state
C2_Witness ==
  /\ pc = "ready"
  /\ prev.finished
  /\ prev.current_state = "SUCCEEDED"
  /\ DocHas("completed", TRUE) /\ DocHas("failed", TRUE)
  /\ DocHas("phase", "FAILED") /\ DocCarries("status")
  /\ status = prev

\* C3: a tracker built from a malformed initial response (no body, text
\* that is not JSON, JSON that is not an object) is finished, failed and in
\* state CITEST_INTERNAL_ERROR, and the constructor does not raise.
C3_MalformedInitialIsInternalError ==
  (pc # "start" /\ ~Polled /\ ~InitialIsObject) =>
    /\ pc = "ready"
    /\ raised = NoException
    /\ InternalError(status)

\* a tracker was built from JSON text that decodes to a list
C3_Witness ==
  /\ pc = "ready" /\ ~Polled
  /\ original_response.kind = "json" /\ original_response.type = "list"
  /\ InternalError(status)

\* C4: a tracker built from a JSON object that lacks resourceUri or id is
\* the terminal internal-error tracker, and the constructor does not raise.
C4_MissingIdentifierIsInternalError ==
  ( /\ InitialIsObject
    /\ ~Polled
    /\ ~({"resourceUri", "id"} \subseteq DOMAIN original_response.items) ) =>
    /\ pc = "ready"
    /\ raised = NoException
    /\ InternalError(status)

\* C5: a tracker built from a JSON object with both resourceUri and id is
\* pending: not yet polled, not finished, not failed, not finished_ok.
C5_ValidInitialIsPending ==
  ( /\ InitialIsObject
    /\ ~Polled
    /\ {"resourceUri", "id"} \subseteq DOMAIN original_response.items ) =>
    /\ pc = "ready"
    /\ raised = NoException
    /\ ~finished(status)
    /\ ~status.failed
    /\ ~finished_ok(status)

\* a tracker was built from an object carrying both identifiers
C5_Witness ==
  /\ pc = "ready" /\ ~Polled
  /\ InitialIsObject
  /\ DOMAIN original_response.items = {"resourceUri", "id"}
  /\ status.request_id = "id2"

\* C6 as stated: refreshing a tracker that is not finished with a document
\* that has completed = false and phase RUNNING and no failed key completes
\* normally, leaves finished false and sets current_state to RUNNING.
C6_RunningWithoutFailedKey ==
  ( /\ PolledNonTerminal
    /\ DocHas("completed", FALSE) /\ DocHas("phase", "RUNNING")
    /\ ~DocCarries("failed") ) =>
    /\ raised = NoException
    /\ ~finished(status)
    /\ status.current_state = "RUNNING"

\* C6 amended: refreshing a tracker that is not finished with a document
\* that has completed = false, phase RUNNING and a failed key leaves
\* finished false and sets current_state to RUNNING; the refresh completes
\* normally unless failed is true and no failure detail is carried.  With
\* no failed key the refresh raises KeyError and changes no field.
C6_RunningDocument ==
  ( /\ PolledNonTerminal
    /\ DocHas("completed", FALSE) /\ DocHas("phase", "RUNNING") ) =>
    IF DocCarries("failed")
    THEN /\ ~finished(status)
         /\ status.current_state = "RUNNING"
         /\ (raised = NoException) <=>
              (DocHas("failed", FALSE) \/ DocCarries("status"))
    ELSE raised = "KeyError" /\ status = prev

\* a RUNNING document with failed = false was applied to a pending tracker
C6_Witness ==
  /\ PolledNonTerminal
  /\ prev.current_state = None
  /\ DocHas("completed", FALSE) /\ DocHas("phase", "RUNNING")
  /\ DocHas("failed", FALSE)
  /\ status.current_state = "RUNNING"
  /\ raised = NoException

\* C7: refreshing a tracker that is not finished with a document that has
\* completed = true, failed = true and failure detail makes it finished
\* and failed, not finished_ok, with exception_details that detail.
C7_FailedDocument ==
  ( /\ PolledNonTerminal
    /\ DocHas("completed", TRUE) /\ DocHas("failed", TRUE)
    /\ DocCarries("phase") /\ DocCarries("status") ) =>
    /\ raised = NoException
    /\ finished(status)
    /\ status.failed
    /\ ~finished_ok(status)
    /\ status.exception_details = doc["status"]["status"]

\* a FAILED document with detail2 was applied to a running tracker
C7_Witness ==
  /\ PolledNonTerminal
  /\ prev.current_state = "RUNNING"
  /\ DocHas("completed", TRUE) /\ DocHas("failed", TRUE)
  /\ DocHas("phase", "FAILED") /\ DocHas("status", "detail2")
  /\ status.exception_details = "detail2"

\* C8: refreshing a tracker that is not finished with a document that has
\* completed = true and failed = false makes it finished and finished_ok.
C8_SucceededDocument ==
  ( /\ PolledNonTerminal
    /\ DocHas("completed", TRUE) /\ DocHas("failed", FALSE)
    /\ DocCarries("phase") ) =>
    /\ raised = NoException
    /\ finished(status)
    /\ finished_ok(status)

\* a SUCCEEDED document was applied to a running tracker
C8_Witness ==
  /\ PolledNonTerminal
  /\ prev.current_state = "RUNNING"
  /\ DocHas("completed", TRUE) /\ DocHas("failed", FALSE)
  /\ DocHas("phase", "SUCCEEDED")
  /\ finished_ok(status)

\* C9: the identifiers of a tracker are those of its initial response
\* (none when that response was no object), whatever refreshes were made.
C9_IdentifiersNeverChange ==
  pc = "ready" =>
    IF InitialIsObject
    THEN /\ status.detail_path = original_response.items["resourceUri"]
         /\ status.request_id = original_response.items["id"]
    ELSE status.detail_path = None /\ status.request_id = None

\* a tracker with identifiers was refreshed to a finished state after an
\* earlier refresh had already changed it
C9_Witness ==
  /\ PolledNonTerminal
  /\ prev.current_state = "RUNNING"
  /\ finished(status)
  /\ status.detail_path = "/task/2" /\ status.request_id = "id1"

\* C10: timed_out is false for every built tracker, whatever time has
\* elapsed and whatever refreshes were made.
C10_NeverTimedOut ==
  pc = "ready" => timed_out(status) = FALSE

\* time has passed on a tracker that was polled and is still not finished
C10_Witness ==
  /\ pc = "ready" /\ Polled
  /\ elapsed > 0
  /\ ~finished(status)
  /\ ~timed_out(status)

C12_DetailsReflectLastDocument ==
  ( /\ PolledNonTerminal
    /\ DocCarries("completed") /\ DocCarries("failed") /\ DocCarries("phase") ) =>
    IF doc["status"]["failed"]
    THEN DocCarries("status") =>
           status.exception_details = doc["status"]["status"]
    ELSE status.exception_details = None

\* details captured by an earlier poll were cleared by a document that
\* reports failed = false
C12_Witness ==
  /\ PolledNonTerminal
  /\ prev.exception_details = "detail1"
  /\ DocHas("completed", FALSE) /\ DocHas("failed", FALSE) /\ DocCarries("phase")
  /\ status.exception_details = None

\* the last document lacks a part of a complete status: the status object,
\* completed, failed, phase, or the failure detail when failed is true
DocIncomplete ==
  /\ Polled
  /\ \/ "status" \notin DOMAIN doc
     \/ ~DocCarries("completed")
     \/ ~DocCarries("failed")
     \/ ~DocCarries("phase")
     \/ (DocHas("failed", TRUE) /\ ~DocCarries("status"))

\* C15: a refresh of a tracker that was not finished with an incomplete
\* document leaves finished, failed and current_state as they were.
C15_IncompleteDocumentChangesNothing ==
  (PolledNonTerminal /\ DocIncomplete) =>
    /\ status.finished = prev.finished
    /\ status.failed = prev.failed
    /\ status.current_state = prev.current_state

\* the fields of a tracker built from response r and refreshed, alone, with
\* the documents of ds in order
RECURSIVE Replay(_, _)
Replay(r, ds) ==
  IF ds = <<>> THEN KatoStatus_init(r).self
  ELSE refresh(Replay(r, SubSeq(ds, 1, Len(ds) - 1)), ds[Len(ds)]).self

\* C13: trackers are independent: under every interleaving of the refreshes
\* of two trackers, each tracker has the fields it would have had if its own
\* documents had been applied in order with no other tracker present.
C13_TrackersIndependent ==
  \A i \in TrackerIds :
    trackers[i].pc = "ready" =>
      trackers[i].status = Replay(trackers[i].original_response, applied[i])

\* two trackers that were refreshed with different documents and ended in
\* different states
C13_Witness ==
  /\ trackers[1].pc = "ready" /\ trackers[2].pc = "ready"
  /\ Len(applied[1]) = 2 /\ Len(applied[2]) = 2
  /\ finished_ok(trackers[1].status)
  /\ trackers[2].status.failed
  /\ trackers[2].status.exception_details = "detail1"

\* the observable fields of a tracker
Observable(self) ==
  <<finished(self), self.failed, finished_ok(self), self.current_state,
    self.exception_details>>

StartedInOrder ==
  /\ Len(started) <= Len(cmd_list)
  /\ \A k \in 1..Len(started) : started[k] = cmd_list[k]

\* no command was spawned after a command that failed
NoneStartedAfterFailure ==
  \A k \in 1..Len(started) : started[k].returncode # 0 => k = Len(started)

\* C16: run_subprocess_sequence runs the commands in list order and stops
\* at the first that fails: no command after a failing one is spawned, and
\* the list returned holds one (code, output) pair per command run, in order.
C16_RunSequenceStopsAtFailure ==
  seq_fn = "run_subprocess_sequence" =>
    /\ StartedInOrder
    /\ NoneStartedAfterFailure
    /\ seq_pc = "returned" =>
         /\ Len(seq_response) = Len(started)
         /\ \A k \in 1..Len(started) :
              seq_response[k] = <<started[k].returncode, strip(started[k].stdout)>>

\* C17: check_subprocess_sequence runs the commands in list order; at the
\* first that exits non-zero it raises CalledProcessError and spawns no later
\* command; if all succeed it returns one output per command, in order.
C17_CheckSequenceStopsAtFailure ==
  seq_fn = "check_subprocess_sequence" =>
    /\ StartedInOrder
    /\ NoneStartedAfterFailure
    /\ seq_pc = "raised" =>
         /\ seq_raised = "CalledProcessError"
         /\ started # <<>>
         /\ started[Len(started)].returncode # 0
    /\ seq_pc = "loop" =>
         \A k \in 1..Len(started) : started[k].returncode = 0
    /\ seq_pc = "returned" =>
         /\ seq_raised = NoException
         /\ \A k \in 1..Len(cmd_list) : cmd_list[k].returncode = 0
         /\ Len(seq_response) = Len(cmd_list)
         /\ \A k \in 1..Len(cmd_list) : seq_response[k] = strip(cmd_list[k].stdout)

\* check_subprocess_sequence raised at the second of three commands, after
\* one success, and the third was not spawned
C17_Witness ==
  /\ seq_fn = "check_subprocess_sequence"
  /\ seq_pc = "raised"
  /\ Len(cmd_list) = 3 /\ Len(started) = 2
  /\ started[1].returncode = 0
  /\ seq_response = << <<"o", "k">> >>

\* the function f of the configuration module has been called
Called(f) == f \in cfg_done

\* --jenkins_master_name, --jenkins_master_address and --jenkins_master_user
\* are all supplied
JenkinsMasterSupplied ==
  /\ Truthy(opts.jenkins_master_name)
  /\ Truthy(opts.jenkins_master_address)
  /\ Truthy(opts.jenkins_master_user)

\* C18: with the jenkins master's name, address and user all supplied,
\* validate_options accepts the options whenever a password is supplied by
\* --jenkins_master_credentials or by JENKINS_MASTER_PASSWORD, and raises
\* ValueError only when neither is supplied.
C18_JenkinsPasswordFromEither ==
  (Called("validate_options") /\ JenkinsMasterSupplied) =>
    /\ (Truthy(opts.jenkins_master_credentials) \/ Truthy(env_password))
         => validation.raised = NoException
    /\ validation.raised \in {NoException, "ValueError"}

\* the providers, the flag validate_options sets for each, and the name
\* its statements carry
Providers == {"aws", "azure", "google", "k8s", "docker"}

EnabledFlag(p) ==
  CASE p = "aws" -> "aws_account_enabled"
    [] p = "azure" -> "azure_account_enabled"
    [] p = "google" -> "google_account_enabled"
    [] p = "k8s" -> "k8s_account_enabled"
    [] p = "docker" -> "docker_account_enabled"

\* the script make_script returned holds the provider's 'enable' and
\* 'account add' statements
Emits(p) ==
  /\ made.raised = NoException
  /\ \E k \in 1..Len(made.script) :
       /\ made.script[k].section = "provider"
       /\ made.script[k].target = p
       /\ made.script[k].verb = "enable"
  /\ \E k \in 1..Len(made.script) :
       /\ made.script[k].section = "provider"
       /\ made.script[k].target = p
       /\ made.script[k].verb = "account add"

\* C19: after validate_options succeeded, each provider's
\* <provider>_account_enabled flag is true exactly when make_script on the
\* same options emits that provider's 'enable' and 'account add' statements.
C19_EnabledIffConfigured ==
  ( /\ Called("validate_options") /\ validation.raised = NoException
    /\ Called("make_script") ) =>
    \A p \in Providers : validation.enabled[EnabledFlag(p)] <=> Emits(p)

\* C20: when make_script succeeded, every file a statement of the script
\* names, by its path or by its base name, is in the set
\* get_files_to_upload returns for the same options.
C20_ReferencedFilesAreUploaded ==
  ( /\ Called("make_script") /\ made.raised = NoException
    /\ Called("get_files_to_upload") ) =>
    \A k \in 1..Len(made.script) :
      made.script[k].file # None =>
        \E f \in files : made.script[k].file \in {f, basename(f)}

\* a script for a docker registry with a password file, whose chmod and
\* account statements name the file that is uploaded
C20_Witness ==
  /\ Called("make_script") /\ made.raised = NoException
  /\ Called("get_files_to_upload")
  /\ Emits("docker")
  /\ \E k \in 1..Len(made.script) :
       made.script[k].verb = "chmod" /\ made.script[k].file = "docker.pw"
  /\ \E k \in 1..Len(made.script) :
       made.script[k].verb = "account add"
         /\ made.script[k].file = "/keys/docker.pw"
  /\ "/keys/docker.pw" \in files

\* the positions of the calls made on exception object e
CallsOn(e) == { k \in 1..Len(log_calls) : log_calls[k].ex = e }

\* the positions of the log records that calls on e emitted in format fmt
RecordsOf(e, fmt) ==
  { k \in 1..Len(log) : log[k].ex = e /\ log[k].fmt = fmt }

\* the action records of the log, in order
RECURSIVE ActionRecords(_)
ActionRecords(records) ==
  IF records = <<>> THEN <<>>
  ELSE IF Head(records).fmt = "action"
       THEN <<Head(records)>> \o ActionRecords(Tail(records))
       ELSE ActionRecords(Tail(records))

\* C21: across any sequence of maybe_log_exception calls on one exception
\* object, the stack trace is logged exactly once, by the first call, the
\* object is marked logged from then on, and every call logs its action
\* message.
C21_TraceLoggedOnce ==
  /\ \A e \in ExIds :
       IF CallsOn(e) = {}
       THEN RecordsOf(e, "caught exception") = {} /\ excs[e] = NoAttributes
       ELSE /\ Cardinality(RecordsOf(e, "caught exception")) = 1
            /\ \A t \in RecordsOf(e, "caught exception") :
                 \A a \in RecordsOf(e, "action") : t < a
            /\ "logged" \in DOMAIN excs[e]
            /\ excs[e]["logged"] = TRUE
  /\ ActionRecords(log) =
       [k \in 1..Len(log_calls) |->
          ActionRecord(log_calls[k].where, log_calls[k].ex,
                       log_calls[k].action_msg)]

\* three calls were made, two of them on the same exception object
C21_Witness ==
  /\ Len(log_calls) = 3
  /\ Cardinality(CallsOn("ex1")) = 2
  /\ Cardinality(CallsOn("ex2")) = 1
  /\ log_calls[1].ex = "ex1" /\ log_calls[3].ex = "ex1"
  /\ Len(log) = 5

\* document d gets past lines 81-84 and reports completed = true
ReportsCompleted(d) ==
  /\ d # NoDoc
  /\ "status" \in DOMAIN d
  /\ {"completed", "failed", "phase"} \subseteq DOMAIN d["status"]
  /\ d["status"]["completed"]

\* a step that is a poll: a refresh and nothing else sets these variables
PollStep == <<doc, prev, status, raised>>' # <<doc, prev, status, raised>>

\* every poll from now on is answered with a document that reports
\* completed = true
ServerReportsCompleted == [][PollStep => ReportsCompleted(doc')]_vars

\* C22: if the caller keeps refreshing a tracker constructed non-terminal
\* and the server from some point on reports completed = true, the tracker
\* eventually becomes finished; a finished tracker stays finished in every
\* later state.
C22_EventuallyFinished ==
  /\ (<>ServerReportsCompleted) =>
       [](pc = "ready" => <>finished(status))
  /\ [][(pc = "ready" /\ finished(status)) => finished(status')]_vars

\* a tracker constructed non-terminal was polled while running, then
\* finished by a poll that reported completed = true
C22_Witness ==
  /\ PolledNonTerminal
  /\ InitialIsObject
  /\ prev.current_state = "RUNNING"
  /\ ReportsCompleted(doc)
  /\ DocHas("phase", "SUCCEEDED")
  /\ finished(status)

\* C23: a tracker constructed non-terminal becomes finished only in a
\* refresh whose document reports completed = true; a document with
\* completed = false sets neither finished nor failed, even when it
\* reports failed = true.
C23_FinishedOnlyByCompleted ==
  (pc = "ready" /\ InitialIsObject) =>
    /\ ~Polled => (~finished(status) /\ ~status.failed)
    /\ (PolledNonTerminal /\ finished(status)) => DocHas("completed", TRUE)
    /\ (PolledNonTerminal /\ DocHas("completed", FALSE)) =>
         (~finished(status) /\ ~status.failed)

\* a document with completed = false and failed = true was applied: its
\* detail was taken, the tracker is neither finished nor failed
C23_Witness ==
  /\ PolledNonTerminal
  /\ InitialIsObject
  /\ DocHas("completed", FALSE) /\ DocHas("failed", TRUE)
  /\ DocHas("phase", "RUNNING") /\ DocHas("status", "detail1")
  /\ raised = NoException
  /\ status.exception_details = "detail1"
  /\ ~finished(status) /\ ~status.failed

\* the subsystems whose build raised or exited non-zero
FailedSubsystems == { AllSubsystems[k] : k \in FailedBuilds }

\* the parallel build phase of build_packages is over
BuildPhaseOver == bpc \notin {"idle", "building"}

\* C24: under every interleaving of the pool's threads, when the parallel
\* build phase has returned the build-failure list holds exactly the
\* subsystems whose build raised or exited non-zero, each exactly once.
C24_FailuresRecordedOnce ==
  BuildPhaseOver =>
    /\ Range(build_failures) = FailedSubsystems
    /\ Len(build_failures) = Cardinality(FailedSubsystems)

\* two threads built in parallel; a later subsystem of the list exited
\* non-zero and was recorded before an earlier one whose build raised
C24_Witness ==
  /\ bpc = "built"
  /\ pool_size = 2
  /\ Len(build_failures) = 2
  /\ \E i, j \in DOMAIN AllSubsystems :
       /\ i < j
       /\ build_failures = << AllSubsystems[j], AllSubsystems[i] >>
       /\ outcome[j] = "nonzero"
       /\ outcome[i] = "raised"

\* build_packages has gone past its test of the build failures
FailuresTested == bpc \in {"checked", "copying", "returned", "raised"}

\* C25: build_packages raises RuntimeError exactly when a failed build
\* belongs to SUBSYSTEM_LIST; when every failed build belongs to
\* ADDITIONAL_SUBSYSTEMS the failures are ignored and build_packages goes
\* on without raising.
C25_RuntimeErrorForCoreSubsystems ==
  FailuresTested =>
    /\ (braised = "RuntimeError") <=>
         (FailedSubsystems \cap Range(SUBSYSTEM_LIST) # {})
    /\ (FailedSubsystems # {} /\
        FailedSubsystems \subseteq Range(ADDITIONAL_SUBSYSTEMS)) =>
         /\ bpc = "raised" => braised \in {"AssertionError", "SystemError"}
         /\ bopts.nebula => (bpc # "raised" /\ braised = NoException)

\* only the build of spinnaker-monitoring failed, and build_packages
\* returned
C25_Witness ==
  /\ bpc = "returned"
  /\ bopts.nebula
  /\ FailedSubsystems = {"spinnaker-monitoring"}
  /\ build_failures = << "spinnaker-monitoring" >>
  /\ braised = NoException

\* C26: without nebula no copy starts before every build has finished, and
\* the packages copied are exactly those of the subsystems not recorded as
\* build failures, with or without the build option; with nebula no copy
\* starts.
C26_CopiesFollowBuilds ==
  /\ copies # {} =>
       \A k \in DOMAIN AllSubsystems :
         /\ builds[k] \notin {"running", "handler"}
         /\ bopts.build => builds[k] = "done"
  /\ bopts.nebula => copies = {}
  /\ ( /\ ~bopts.nebula
       /\ bpc \in {"returned", "raised"}
       /\ braised \notin {"RuntimeError", "AssertionError", "SystemError"} ) =>
       /\ bpc = "returned"
       /\ copies = Range(AllSubsystems) \ Range(build_failures)

====
